---- MODULE Spec2Model ----
(***************************************************************************)
(* Model of release.py: the release-packaging loop go_build().  For every  *)
(* target environment it derives the archive and binary file names, runs   *)
(* the Go toolchain, optionally runs UPX, writes a zip archive and removes *)
(* the intermediate binary.  File names are modelled as character strings  *)
(* and the string operations (endswith, replace, relpath) are computed.    *)
(***************************************************************************)
EXTENDS Integers, Sequences, FiniteSets, TLC

(* ------------------------------------------------------------------ *)
(* Configuration constants (release.py lines 9-13)                     *)
(* ------------------------------------------------------------------ *)
PROJECT_NAME == "mosdns-log"
CONFIG_FILE == "../config.yaml"
README_FILE == "../README.md"
WEB_DIR == "../web"

(* ------------------------------------------------------------------ *)
(* Bounds and input domains                                            *)
(* ------------------------------------------------------------------ *)
MaxTargets == 2

\* Target environments the list `envs` is drawn from; the first one is the
\* entry release.py ships with.
TargetSpecs ==
  { << <<"GOOS", "linux">>, <<"GOARCH", "amd64">>, <<"GOAMD64", "v3">> >>,
    << <<"GOOS", "linux">>, <<"GOARCH", "amd64">>, <<"GOAMD64", "v1">> >>,
    << <<"GOOS", "windows">>, <<"GOARCH", "amd64">> >> }

\* The process environment the script is started in, restricted to the
\* variables go_build() reads: none of them is exported.
BaseEnv == << >>

\* Files below the web directory when it exists, as paths relative to it.
WebTree == {"index.html", "css/style.css"}

(* ------------------------------------------------------------------ *)
(* String helpers (Python str methods and os.path functions)           *)
(* ------------------------------------------------------------------ *)
EndsWith(s, suf) ==
  /\ Len(s) >= Len(suf)
  /\ SubSeq(s, Len(s) - Len(suf) + 1, Len(s)) = suf

StartsWith(s, pre) ==
  /\ Len(s) >= Len(pre)
  /\ SubSeq(s, 1, Len(pre)) = pre

Contains(s, sub) ==
  \E k \in 1..(Len(s) - Len(sub) + 1) : SubSeq(s, k, k + Len(sub) - 1) = sub

\* str.replace(old, new): every non-overlapping occurrence, left to right,
\* scanning s from position k.
RECURSIVE ReplaceFrom(_, _, _, _)
ReplaceFrom(s, k, old, new) ==
  IF k + Len(old) - 1 > Len(s) THEN SubSeq(s, k, Len(s))
  ELSE IF SubSeq(s, k, k + Len(old) - 1) = old
       THEN new \o ReplaceFrom(s, k + Len(old), old, new)
       ELSE SubSeq(s, k, k) \o ReplaceFrom(s, k + 1, old, new)

Replace(s, old, new) == ReplaceFrom(s, 1, old, new)

\* os.path.join(root, file)
PathJoin(root, file) == root \o "/" \o file

\* os.path.relpath(path, start) for a path below start (both relative to
\* the working directory).
RelPath(path, start) ==
  IF StartsWith(path, start \o "/")
  THEN SubSeq(path, Len(start) + 2, Len(path))
  ELSE path

(* ------------------------------------------------------------------ *)
(* Target Resolver (release.py lines 36-57)                            *)
(* ------------------------------------------------------------------ *)
\* os_env = os.environ.copy(); os_env[pairs[0]] = pairs[1] for each pair
RECURSIVE MergeEnv(_, _)
MergeEnv(base, env) ==
  IF env = << >> THEN base
  ELSE LET p == Head(env)
           b == [k \in (DOMAIN base) \cup {p[1]} |->
                   IF k = p[1] THEN p[2] ELSE base[k]]
       IN MergeEnv(b, Tail(env))

\* os_env.get(key)
EnvGet(e, key) == IF key \in DOMAIN e THEN e[key] ELSE "None"

\* the loop of lines 39-45 followed by the '.exe' suffix of lines 48-49
RECURSIVE NameSuffix(_, _)
NameSuffix(s, env) ==
  IF env = << >> THEN s
  ELSE LET p == Head(env)
       IN NameSuffix(IF p[1] \in {"GOOS", "GOARCH"} THEN s \o "-" \o p[2]
                     ELSE IF p[1] = "GOAMD64" THEN s \o "-v3"
                     ELSE s,
                     Tail(env))

ResolvedName(env, e) ==
  LET s == NameSuffix(PROJECT_NAME, env)
  IN IF EnvGet(e, "GOOS") = "windows" THEN s \o ".exe" ELSE s

\* lines 51-53
ZipFileNameKeepExe(env, e) == ResolvedName(env, e) \o ".zip"
ZipFileName(env, e) ==
  LET z == ResolvedName(env, e) \o ".zip"
  IN IF EndsWith(z, ".exe.zip") THEN Replace(z, ".exe.zip", ".zip") ELSE z

\* lines 55-57
BinFileNameSuffixed(env, e) == ResolvedName(env, e)
BinFileName(env, e) ==
  IF EnvGet(e, "GOOS") = "windows" THEN PROJECT_NAME \o ".exe" ELSE PROJECT_NAME

(* ------------------------------------------------------------------ *)
(* State                                                               *)
(* ------------------------------------------------------------------ *)
VARIABLES
  envs,          \* the target list (release.py line 17), read-only
  upx,           \* args.upx
  base_env,      \* os.environ when the script starts
  config_exists, \* os.path.exists(CONFIG_FILE)
  readme_exists, \* os.path.exists('../README.md')
  web_exists,    \* os.path.exists(WEB_DIR)
  web_files,     \* regular files os.walk(WEB_DIR) finds, relative to WEB_DIR
  pc,            \* position of go_build(): loop, build, upx, zip, clean, done
  i,             \* index of the target the for loop is at
  os_env,        \* loop local os_env
  zip_filename,  \* loop local zip_filename
  bin_filename,  \* loop local bin_filename
  disk_bin,      \* binaries in the working directory: name -> content
  archives,      \* archive files in the working directory: name -> content
  log,           \* records the logger emitted
  exit_code,     \* -1 while running, then the process exit status
  resolved,      \* history: names derived for each target attempted, in order
  build_rc,      \* history: target -> exit of the toolchain (none, ok, fail)
  upx_rc,        \* history: target -> exit of the compressor (none, ok, fail)
  wrote,         \* history: target -> archive content that target wrote
  status         \* history: target -> stage reached

vars == << envs, upx, base_env, config_exists, readme_exists, web_exists,
           web_files, pc, i, os_env, zip_filename, bin_filename, disk_bin,
           archives, log, exit_code, resolved, build_rc, upx_rc, wrote,
           status >>

inputs == << envs, upx, base_env, config_exists, readme_exists, web_exists,
             web_files >>

Targets == 1..Len(envs)

RECURSIVE SeqsUpTo(_, _)
SeqsUpTo(S, n) ==
  IF n = 0 THEN { << >> }
  ELSE LET shorter == SeqsUpTo(S, n - 1)
       IN shorter \cup { Append(q, x) : q \in shorter, x \in S }

LogRec(t, lvl, msg) == [t |-> t, lvl |-> lvl, msg |-> msg]

\* go_build() up to the for loop (lines 29-33), after the main block has
\* changed into the release directory (lines 118-121).
Init ==
  /\ envs \in SeqsUpTo(TargetSpecs, MaxTargets)
  /\ upx \in BOOLEAN
  /\ base_env = BaseEnv
  /\ config_exists \in BOOLEAN
  /\ readme_exists \in BOOLEAN
  /\ web_exists \in BOOLEAN
  /\ web_files = (IF web_exists THEN WebTree ELSE {})
  /\ pc = "loop"
  /\ i = 1
  /\ os_env = base_env
  /\ zip_filename = ""
  /\ bin_filename = ""
  /\ disk_bin = << >>
  /\ archives = << >>
  /\ log = IF config_exists THEN << >>
           ELSE << LogRec(0, "warning", "config not found") >>
  /\ exit_code = -1
  /\ resolved = << >>
  /\ build_rc = [t \in Targets |-> "none"]
  /\ upx_rc = [t \in Targets |-> "none"]
  /\ wrote = << >>
  /\ status = [t \in Targets |-> "PENDING"]

(* ------------------------------------------------------------------ *)
(* File system helpers                                                 *)
(* ------------------------------------------------------------------ *)
\* creating or overwriting the file `name` with content c
PutFile(files, name, c) ==
  [n \in (DOMAIN files) \cup {name} |-> IF n = name THEN c ELSE files[n]]

\* os.remove(name)
RemoveFile(files, name) == [n \in (DOMAIN files) \ {name} |-> files[n]]

RECURSIVE SetToSeq(_)
SetToSeq(S) ==
  IF S = {} THEN << >>
  ELSE LET x == CHOOSE y \in S : TRUE IN << x >> \o SetToSeq(S \ {x})

\* lines 97-99: the archive path of a file the walk found
ArchivePathKeepDots(file_path) == file_path
ArchivePath(file_path) == RelPath(file_path, "..")

\* lines 81-100: the zf.write calls of one archive, in order
WriteSteps(bin) ==
  << [src |-> bin, arc |-> bin] >>
  \o (IF config_exists
      THEN << [src |-> CONFIG_FILE, arc |-> "config.yaml"] >> ELSE << >>)
  \o (IF readme_exists
      THEN << [src |-> README_FILE, arc |-> "README.md"] >> ELSE << >>)
  \o (IF web_exists
      THEN LET found == SetToSeq(web_files)
           IN [k \in 1..Len(found) |->
                 [src |-> PathJoin(WEB_DIR, found[k]),
                  arc |-> ArchivePath(PathJoin(WEB_DIR, found[k]))]]
      ELSE << >>)

\* the archive after the first n writes: entry names, and the content of
\* the binary entry (the first write) as a set of at most one element
ArchiveContent(steps, n, closed) ==
  [by |-> i,
   names |-> { steps[k].arc : k \in 1..n },
   bin |-> IF n >= 1 THEN { disk_bin[bin_filename] } ELSE {},
   closed |-> closed]

\* the next iteration of the for loop
NextTarget == i' = i + 1 /\ pc' = "loop"

(* ------------------------------------------------------------------ *)
(* go_build(): one action per step of the loop body                    *)
(* ------------------------------------------------------------------ *)
\* lines 36-59: derive the environment and the names of target i
Resolve ==
  /\ pc = "loop"
  /\ i <= Len(envs)
  /\ LET e == MergeEnv(base_env, envs[i])
         z == ZipFileName(envs[i], e)
         b == BinFileName(envs[i], e)
     IN /\ os_env' = e
        /\ zip_filename' = z
        /\ bin_filename' = b
        /\ resolved' = Append(resolved,
                              [t |-> i, zip |-> z, bin |-> b,
                               goos |-> EnvGet(e, "GOOS")])
  /\ log' = Append(log, LogRec(i, "info", "Building"))
  /\ pc' = "build"
  /\ UNCHANGED << inputs, i, disk_bin, archives, exit_code, build_rc, upx_rc,
                  wrote, status >>

\* lines 65-67: the toolchain exits 0 and has written the binary
BuildOk ==
  /\ pc = "build"
  /\ disk_bin' = PutFile(disk_bin, bin_filename, [by |-> i, packed |-> FALSE])
  /\ build_rc' = [build_rc EXCEPT ![i] = "ok"]
  /\ status' = [status EXCEPT ![i] = "BUILT"]
  /\ pc' = "upx"
  /\ UNCHANGED << inputs, i, os_env, zip_filename, bin_filename, archives,
                  log, exit_code, resolved, upx_rc, wrote >>

BuildFailRaise ==
  /\ pc = "build"
  /\ build_rc' = [build_rc EXCEPT ![i] = "fail"]
  /\ status' = [status EXCEPT ![i] = "FAILED"]
  /\ log' = Append(log, LogRec(i, "error", "Build failed"))
  /\ pc' = "done"
  /\ exit_code' = 1
  /\ UNCHANGED << inputs, i, os_env, zip_filename, bin_filename, disk_bin,
                  archives, resolved, upx_rc, wrote >>

BuildFailIgnored ==
  /\ pc = "build"
  /\ build_rc' = [build_rc EXCEPT ![i] = "fail"]
  /\ pc' = "upx"
  /\ UNCHANGED << inputs, i, os_env, zip_filename, bin_filename, disk_bin,
                  archives, log, exit_code, resolved, upx_rc, wrote, status >>

\* lines 67, 110-111: the toolchain exits non-zero, check_call raises
\* CalledProcessError, the handler logs it and the loop goes on
BuildFail ==
  /\ pc = "build"
  /\ build_rc' = [build_rc EXCEPT ![i] = "fail"]
  /\ status' = [status EXCEPT ![i] = "FAILED"]
  /\ log' = Append(log, LogRec(i, "error", "Build failed"))
  /\ NextTarget
  /\ UNCHANGED << inputs, os_env, zip_filename, bin_filename, disk_bin,
                  archives, exit_code, resolved, upx_rc, wrote >>

\* line 70: the flag is off, the compressor is not run
SkipCompress ==
  /\ pc = "upx"
  /\ ~upx
  /\ pc' = "zip"
  /\ UNCHANGED << inputs, i, os_env, zip_filename, bin_filename, disk_bin,
                  archives, log, exit_code, resolved, build_rc, upx_rc, wrote,
                  status >>

\* lines 70-74: the compressor exits 0 and has rewritten the binary in place
CompressOk ==
  /\ pc = "upx"
  /\ upx
  /\ bin_filename \in DOMAIN disk_bin
  /\ disk_bin' = [disk_bin EXCEPT ![bin_filename].packed = TRUE]
  /\ upx_rc' = [upx_rc EXCEPT ![i] = "ok"]
  /\ status' = [status EXCEPT ![i] = "COMPRESSED"]
  /\ log' = Append(log, LogRec(i, "info", "Compressing with UPX"))
  /\ pc' = "zip"
  /\ UNCHANGED << inputs, i, os_env, zip_filename, bin_filename, archives,
                  exit_code, resolved, build_rc, wrote >>

CompressFailAborts ==
  /\ pc = "upx"
  /\ upx
  /\ upx_rc' = [upx_rc EXCEPT ![i] = "fail"]
  /\ status' = [status EXCEPT ![i] = "FAILED"]
  /\ log' = log \o << LogRec(i, "info", "Compressing with UPX"),
                      LogRec(i, "error", "Build failed") >>
  /\ NextTarget
  /\ UNCHANGED << inputs, os_env, zip_filename, bin_filename, disk_bin,
                  archives, exit_code, resolved, build_rc, wrote >>

\* lines 70-76: the compressor is missing or exits non-zero; the inner
\* handler logs it and the binary stays as the toolchain wrote it
CompressFail ==
  /\ pc = "upx"
  /\ upx
  /\ upx_rc' = [upx_rc EXCEPT ![i] = "fail"]
  /\ log' = log \o << LogRec(i, "info", "Compressing with UPX"),
                      LogRec(i, "error", "UPX compression failed") >>
  /\ pc' = "zip"
  /\ UNCHANGED << inputs, i, os_env, zip_filename, bin_filename, disk_bin,
                  archives, exit_code, resolved, build_rc, wrote, status >>

\* line 79: zipfile.ZipFile(zip_filename, mode='w') creates the file or
\* truncates the one that is there
OpenArchiveOneName(files, name, content) ==
  PutFile(files, PROJECT_NAME \o ".zip", content)
OpenArchive(files, name, content) == PutFile(files, name, content)

\* lines 79-102: the archive is opened, every entry is written, the with
\* block closes it
ArchiveOk ==
  /\ pc = "zip"
  /\ bin_filename \in DOMAIN disk_bin
  /\ LET steps == WriteSteps(bin_filename)
         content == ArchiveContent(steps, Len(steps), TRUE)
     IN /\ archives' = OpenArchive(archives, zip_filename, content)
        /\ wrote' = PutFile(wrote, i, content)
  /\ log' = IF web_exists THEN log
            ELSE Append(log, LogRec(i, "warning", "web directory not found"))
  /\ status' = [status EXCEPT ![i] = "ARCHIVED"]
  /\ pc' = "clean"
  /\ UNCHANGED << inputs, i, os_env, zip_filename, bin_filename, disk_bin,
                  exit_code, resolved, build_rc, upx_rc >>

ArchiveFailPropagates ==
  /\ pc = "zip"
  /\ status' = [status EXCEPT ![i] = "FAILED"]
  /\ log' = Append(log, LogRec(i, "error", "Unknown error"))
  /\ pc' = "done"
  /\ exit_code' = 1
  /\ UNCHANGED << inputs, i, os_env, zip_filename, bin_filename, disk_bin,
                  archives, resolved, build_rc, upx_rc, wrote >>

\* lines 79-100, 112-113: an exception during archive construction.  k = 0:
\* opening the archive raises and no file is created.  k >= 1: the archive
\* is open, the first k-1 entries are written and the k-th write raises;
\* the with block closes the archive with what it holds.  The cleanup of
\* lines 105-106 is skipped; the handler logs and the loop goes on.
ArchiveFail ==
  /\ pc = "zip"
  /\ LET steps == WriteSteps(bin_filename)
     IN \E k \in 0..Len(steps) :
          /\ bin_filename \notin DOMAIN disk_bin => k <= 1
          /\ IF k = 0
             THEN UNCHANGED << archives, wrote >>
             ELSE LET content == ArchiveContent(steps, k - 1, FALSE)
                  IN /\ archives' = OpenArchive(archives, zip_filename, content)
                     /\ wrote' = PutFile(wrote, i, content)
  /\ status' = [status EXCEPT ![i] = "FAILED"]
  /\ log' = Append(log, LogRec(i, "error", "Unknown error"))
  /\ NextTarget
  /\ UNCHANGED << inputs, os_env, zip_filename, bin_filename, disk_bin,
                  exit_code, resolved, build_rc, upx_rc >>

CleanupKeepsBinary ==
  /\ pc = "clean"
  /\ log' = Append(log, LogRec(i, "info", "Success"))
  /\ status' = [status EXCEPT ![i] = "CLEANED"]
  /\ NextTarget
  /\ UNCHANGED << inputs, os_env, zip_filename, bin_filename, disk_bin,
                  archives, exit_code, resolved, build_rc, upx_rc, wrote >>

\* lines 105-108: remove the intermediate binary, log the success
Cleanup ==
  /\ pc = "clean"
  /\ disk_bin' = IF bin_filename \in DOMAIN disk_bin
                 THEN RemoveFile(disk_bin, bin_filename)
                 ELSE disk_bin
  /\ log' = Append(log, LogRec(i, "info", "Success"))
  /\ status' = [status EXCEPT ![i] = "CLEANED"]
  /\ NextTarget
  /\ UNCHANGED << inputs, os_env, zip_filename, bin_filename, archives,
                  exit_code, resolved, build_rc, upx_rc, wrote >>

\* line 35 exhausted, go_build() returns and the script ends (line 123)
Finish ==
  /\ pc = "loop"
  /\ i > Len(envs)
  /\ pc' = "done"
  /\ exit_code' = 0
  /\ UNCHANGED << inputs, i, os_env, zip_filename, bin_filename, disk_bin,
                  archives, log, resolved, build_rc, upx_rc, wrote, status >>

Next ==
  \/ Resolve
  \/ BuildOk
  \/ BuildFail
  \/ SkipCompress
  \/ CompressOk
  \/ CompressFail
  \/ ArchiveOk
  \/ ArchiveFail
  \/ Cleanup
  \/ Finish

Spec == Init /\ [][Next]_vars

\* The script is one sequential process and every external call returns:
\* a step that can be taken is taken.
FairSpec == Spec /\ WF_vars(Next)

(* ------------------------------------------------------------------ *)
(* Properties                                                          *)
(* ------------------------------------------------------------------ *)
Logged(t, lvl, msg) == \E k \in 1..Len(log) : log[k] = LogRec(t, lvl, msg)
\* the failure line of the outer handlers (lines 111 and 113)
FailureLogged(t) ==
  Logged(t, "error", "Build failed") \/ Logged(t, "error", "Unknown error")
SuccessLogged(t) == Logged(t, "info", "Success")

\* target t has been attempted, target t's iteration is over
Attempted(t) == t <= Len(resolved)
Ended(t) == t < i
JustEnded(t) == pc = "loop" /\ t = i - 1

\* the archive file name without its '.zip' suffix
StripZip(z) == IF EndsWith(z, ".zip") THEN SubSeq(z, 1, Len(z) - 4) ELSE z

\* the entry names the archive of target t is to have
ExpectedNames(t) ==
  {resolved[t].bin}
  \cup (IF config_exists THEN {"config.yaml"} ELSE {})
  \cup (IF readme_exists THEN {"README.md"} ELSE {})
  \cup (IF web_exists THEN { "web/" \o f : f \in web_files } ELSE {})

\* C1: a target whose toolchain invocation exits non-zero never opens its
\* archive, has a failure logged, and when the run is over every later
\* target has been processed.
C1_BuildFailureIsolated ==
  \A t \in Targets :
    build_rc[t] = "fail" =>
      /\ t \notin DOMAIN wrote
      /\ FailureLogged(t)
      /\ pc = "done" =>
           \A u \in Targets : u > t => Attempted(u) /\ build_rc[u] # "none"

C1_Witness ==
  /\ pc = "done"
  /\ Len(envs) = 2
  /\ build_rc[1] = "fail"
  /\ status[2] = "CLEANED"
  /\ resolved[1].zip # resolved[2].zip
  /\ DOMAIN archives = {resolved[2].zip}

\* C2: with the compression flag on and the build succeeded, a compressor
\* failure does not abort the target: the target reaches the archive step
\* unfailed, and an archive it completes has the entries of the archive
\* written with the flag off, the binary being the uncompressed one.
C2_CompressorFailureHarmless ==
  \A t \in Targets :
    (upx /\ build_rc[t] = "ok" /\ upx_rc[t] = "fail") =>
      /\ (pc = "zip" /\ i = t) => status[t] = "BUILT"
      /\ Ended(t) =>
           (t \in DOMAIN wrote \/ Logged(t, "error", "Unknown error"))
      /\ ~Logged(t, "error", "Build failed")
      /\ (t \in DOMAIN wrote /\ wrote[t].closed) =>
           /\ wrote[t].names = ExpectedNames(t)
           /\ wrote[t].bin = { [by |-> t, packed |-> FALSE] }

C2_Witness ==
  \E t \in Targets :
    /\ upx /\ upx_rc[t] = "fail"
    /\ status[t] = "CLEANED"
    /\ t \in DOMAIN wrote /\ wrote[t].closed

C3_Order ==
  /\ \A k \in 1..Len(resolved) : resolved[k].t = k
  /\ Len(resolved) <= Len(envs)
  /\ \A k \in 1..(Len(log) - 1) : log[k].t <= log[k + 1].t
  /\ \A t \in Targets : Ended(t) => Attempted(t)
  /\ \A t \in Targets : ~Attempted(t) => status[t] = "PENDING"
  /\ pc = "done" =>
       /\ exit_code = 0
       /\ Len(resolved) = Len(envs)
       /\ \A t \in Targets : status[t] # "PENDING"
  /\ pc # "done" => exit_code = -1

\* C3: targets are attempted once each in list order, the log never goes
\* back to an earlier target, no outcome of a target leaves the run stuck
\* or ends it early, and a finished run has attempted every target and
\* exits 0.
C3_EveryTargetOnceThenExitZero ==
  /\ C3_Order
  /\ pc = "done" \/ ENABLED Next

C3_Witness ==
  /\ pc = "done"
  /\ Len(envs) = 2
  /\ build_rc[1] = "ok" /\ upx_rc[1] = "fail" /\ status[1] = "FAILED"
  /\ status[2] = "CLEANED"

\* C4: for every target whose build succeeded, when the target's iteration
\* ends the intermediate binary is no longer on disk.
C4_BinaryAlwaysDeleted ==
  \A t \in Targets :
    (JustEnded(t) /\ build_rc[t] = "ok") =>
      resolved[t].bin \notin DOMAIN disk_bin

\* C5: an archive written without error holds exactly the binary under its
\* bare name, config.yaml iff the configuration file exists, README.md iff
\* the readme exists, and web/<relative path> for each file of the web
\* directory iff that directory exists.
C5_ArchiveEntries ==
  /\ \A t \in DOMAIN wrote :
       wrote[t].closed =>
         /\ wrote[t].names = ExpectedNames(t)
         /\ resolved[t].bin \in wrote[t].names
         /\ ~Contains(resolved[t].bin, "/")
         /\ ~config_exists => "config.yaml" \notin wrote[t].names
         /\ ~web_exists =>
              \A n \in wrote[t].names : ~StartsWith(n, "web")
  /\ pc = "clean" =>
       /\ zip_filename \in DOMAIN archives
       /\ archives[zip_filename].names = ExpectedNames(i)

C5_Witness ==
  \E t \in DOMAIN wrote :
    /\ wrote[t].closed
    /\ ~config_exists /\ readme_exists
    /\ web_exists /\ web_files # {}
    /\ Cardinality(wrote[t].names) = 4

C5_WitnessNoWeb ==
  \E t \in DOMAIN wrote :
    wrote[t].closed /\ ~web_exists /\ config_exists

\* C6: for a target resolved to Windows the binary file name ends in
\* '.exe' and the archive file name, with or without its '.zip', does not;
\* no archive file name contains '.exe'.
C6_ExeOnlyOnBinary ==
  \A k \in 1..Len(resolved) :
    LET r == resolved[k]
    IN /\ r.goos = "windows" =>
            /\ EndsWith(r.bin, ".exe")
            /\ ~EndsWith(r.zip, ".exe")
            /\ ~EndsWith(StripZip(r.zip), ".exe")
       /\ EndsWith(r.zip, ".zip")
       /\ ~Contains(r.zip, ".exe")

C6_Witness ==
  \E k \in 1..Len(resolved) :
    /\ resolved[k].goos = "windows"
    /\ resolved[k].bin = "mosdns-log.exe"
    /\ resolved[k].zip = "mosdns-log-windows-amd64.zip"

\* C7 as stated: for a target not resolved to Windows the binary file name
\* equals the archive file name without '.zip'.
C7_BinEqualsArchiveStem ==
  \A k \in 1..Len(resolved) :
    resolved[k].goos # "windows" =>
      resolved[k].bin = StripZip(resolved[k].zip)

NamingKeys == {"GOOS", "GOARCH", "GOAMD64"}

\* C7 amended: for a target not resolved to Windows the binary file name is
\* the bare project name, the archive file name without '.zip' starts with
\* it, and the two differ as soon as the target has an operating system,
\* architecture or micro-architecture pair.
C7_BinIsBareProjectName ==
  \A k \in 1..Len(resolved) :
    LET r == resolved[k]
        named == \E n \in 1..Len(envs[k]) : envs[k][n][1] \in NamingKeys
    IN r.goos # "windows" =>
         /\ r.bin = PROJECT_NAME
         /\ StartsWith(StripZip(r.zip), r.bin)
         /\ named => r.bin # StripZip(r.zip)

C7_Witness ==
  \E k \in 1..Len(resolved) :
    /\ resolved[k].goos = "linux"
    /\ resolved[k].bin = "mosdns-log"
    /\ resolved[k].zip = "mosdns-log-linux-amd64-v3.zip"

AllCleaned == \A t \in Targets : status[t] = "CLEANED"
DistinctSpecs == \A a, b \in Targets : a # b => envs[a] # envs[b]
DistinctZipNames ==
  \A a, b \in 1..Len(resolved) : a # b => resolved[a].zip # resolved[b].zip

\* C8 as stated: when the run of a list of pairwise distinct targets ends
\* with every build and archive succeeded, there are as many archive files
\* as targets.
C8_OneArchivePerTarget ==
  (pc = "done" /\ DistinctSpecs /\ AllCleaned) =>
    Cardinality(DOMAIN archives) = Len(envs)

\* C8 amended: when the run ends with every build and archive succeeded,
\* there is one archive file per distinct archive file name, hence as many
\* archive files as targets when the archive file names are pairwise
\* distinct.
C8_OneArchivePerName ==
  (pc = "done" /\ AllCleaned) =>
    /\ DOMAIN archives = { resolved[k].zip : k \in 1..Len(resolved) }
    /\ DistinctZipNames => Cardinality(DOMAIN archives) = Len(envs)
    /\ \A n \in DOMAIN archives : archives[n].closed

C8_Witness ==
  /\ pc = "done"
  /\ AllCleaned
  /\ Len(envs) = 2
  /\ DistinctZipNames
  /\ Cardinality(DOMAIN archives) = 2

\* the per-target state machine
StageEdges ==
  { <<"PENDING", "BUILT">>, <<"PENDING", "FAILED">>,
    <<"BUILT", "COMPRESSED">>, <<"BUILT", "ARCHIVED">>,
    <<"COMPRESSED", "ARCHIVED">>, <<"BUILT", "FAILED">>,
    <<"COMPRESSED", "FAILED">>, <<"ARCHIVED", "CLEANED">> }

C9_Stages ==
  \A t \in Targets :
    /\ t \in DOMAIN wrote => build_rc[t] = "ok"
    /\ status[t] \in {"ARCHIVED", "CLEANED"} =>
         /\ build_rc[t] = "ok"
         /\ t \in DOMAIN wrote /\ wrote[t].closed
    /\ status[t] = "COMPRESSED" => upx /\ upx_rc[t] = "ok"
    /\ (pc = "zip" /\ i = t) => status[t] \in {"BUILT", "COMPRESSED"}
    /\ status[t] = "CLEANED" =>
         /\ resolved[t].zip \in DOMAIN archives
         /\ JustEnded(t) => resolved[t].bin \notin DOMAIN disk_bin
         /\ SuccessLogged(t)
         /\ ~FailureLogged(t)
    /\ status[t] = "FAILED" =>
         /\ FailureLogged(t)
         /\ ~SuccessLogged(t)
         /\ \/ build_rc[t] = "fail" /\ Logged(t, "error", "Build failed")
            \/ /\ build_rc[t] = "ok"
               /\ Logged(t, "error", "Unknown error")
               /\ t \in DOMAIN wrote => ~wrote[t].closed
    /\ Ended(t) => status[t] \in {"CLEANED", "FAILED"}

C10_OwnBinaryArchived ==
  /\ \A t \in DOMAIN wrote : \A c \in wrote[t].bin : c.by = t
  /\ \A n \in DOMAIN archives :
       \A c \in archives[n].bin : c.by = archives[n].by
  /\ pc \in {"upx", "zip"} =>
       /\ bin_filename \in DOMAIN disk_bin
       /\ disk_bin[bin_filename].by = i

C10_Witness ==
  /\ Len(resolved) = 2
  /\ build_rc[1] = "ok" /\ status[1] = "FAILED"
  /\ resolved[1].bin = resolved[2].bin
  /\ 2 \in DOMAIN wrote /\ wrote[2].closed
  /\ wrote[2].bin = { [by |-> 2, packed |-> FALSE] }

====
